---------------------------- MODULE Spec2Model ----------------------------
(***************************************************************************)
(* A model of the httprecord CoreDNS plugin (mensi/httprecord).            *)
(*                                                                         *)
(* Representation of Go values                                             *)
(*  - a string that the code splits is kept as the sequence of its pieces: *)
(*    a response line is the sequence strings.Split(line, " ") yields, a   *)
(*    response body is the sequence of its lines (strings.Split(body,      *)
(*    "\n")) followed by `pad` more newline bytes, a domain name is the    *)
(*    sequence of its labels, an endpoint template is a sequence of        *)
(*    pieces, the placeholder being a piece of its own.                    *)
(*  - uint32 is the record [h, l] of its two 16-bit halves (TLC's integers *)
(*    are 32-bit signed); a Go int (64-bit) is [q, h, l], standing for     *)
(*    q*2^32 + h*2^16 + l, so that uint32(n) keeps h and l and drops q.    *)
(*  - library functions (strconv.Atoi, net.ParseIP, dns.StringToType, the  *)
(*    Cache-Control regular expression) are tables over the strings the    *)
(*    model uses, each entry being what the library returns for it.        *)
(***************************************************************************)
EXTENDS Integers, Sequences, FiniteSets, Bags, TLC

VARIABLES
    dBody,      \* a decoder call: the response body handed to the decoder
    dBase,      \* a decoder call: the base TTL handed to the decoder
    dOut,       \* a decoder call: [rtype, rrs] of the last decoder run, or NoRun
    tCC,        \* an extractTTL call: the Cache-Control header value
    tMax,       \* an extractTTL call: h.MaxTTL
    tOut,       \* an extractTTL call: [ttl] returned by the last run, or NoRun
    cfg,        \* the HTTPRecord value: Records, Zones, MaxTTL, ReturnCachedOnError, Fall
    cache,      \* h.Cache: cache key -> cacheItem
    good,       \* history: <<name, uri>> -> the {payload, ttl} of its last successful fetch
    last,       \* the last ServeDNS call: its query, upstream response and outcome
    cIn,        \* a parseConfig call: the server block keys and the directives
    cOut,       \* a parseConfig call: what the last run returned, or NoParse
    procs,      \* concurrent ServeDNS calls: each goroutine's position and locals
    hist,       \* concurrent ServeDNS calls: history of the upstream's responses
    lLine,      \* a recordLine: the trimmed line its methods are called on
    lOut        \* a recordLine: [Type, TTL, Payload] its methods returned, or NoLine

decVars == <<dBody, dBase, dOut>>

ttlVars == <<tCC, tMax, tOut>>

srvVars == <<cfg, cache, good, last>>

confVars == <<cIn, cOut>>

concVars == <<procs, hist>>

lineVars == <<lLine, lOut>>

vars == <<dBody, dBase, dOut, tCC, tMax, tOut, cfg, cache, good, last, cIn, cOut,
          procs, hist, lLine, lOut>>

\* no decoder run yet
NoRun == [run |-> FALSE, rtype |-> "", rrs |-> <<>>]

\* the empty string as a response body
EmptyBody == [lines |-> <<>>, pad |-> 0]

-----------------------------------------------------------------------------
(* uint32 and int *)

\* uint32 value of a small natural n (n < 2^31)
U(n) == [h |-> n \div 65536, l |-> n % 65536]

\* Go int value of a small natural n (n < 2^31)
GoInt(n) == [q |-> 0, h |-> n \div 65536, l |-> n % 65536]

\* uint32(n) for a Go int n: the low 32 bits
Uint32(n) == [h |-> n.h, l |-> n.l]

U32Gt(a, b) == a.h > b.h \/ (a.h = b.h /\ a.l > b.l)

U32Leq(a, b) == ~U32Gt(a, b)

U32IsZero(a) == a.h = 0 /\ a.l = 0

\* n > b for a Go int n and a uint32 b, as mathematical integers
IntGtU32(n, b) == n.q > 0 \/ (n.q = 0 /\ U32Gt(Uint32(n), b))

\* n = 0 for a Go int n
IntIsZero(n) == n.q = 0 /\ n.h = 0 /\ n.l = 0

-----------------------------------------------------------------------------
(* library tables *)

\* strconv.Atoi on a 64-bit build: [n, ok]. A syntax error gives 0, a range
\* error gives the nearest int64; both with ok = FALSE.
Atoi(s) ==
    CASE s = "0"     -> [n |-> GoInt(0), ok |-> TRUE]
      [] s = "1"     -> [n |-> GoInt(1), ok |-> TRUE]
      [] s = "5"     -> [n |-> GoInt(5), ok |-> TRUE]
      [] s = "+5"    -> [n |-> GoInt(5), ok |-> TRUE]
      [] s = "60"    -> [n |-> GoInt(60), ok |-> TRUE]
      [] s = "300"   -> [n |-> GoInt(300), ok |-> TRUE]
      [] s = "1800"  -> [n |-> GoInt(1800), ok |-> TRUE]
      [] s = "3600"  -> [n |-> GoInt(3600), ok |-> TRUE]
      [] s = "7200"  -> [n |-> GoInt(7200), ok |-> TRUE]
      [] s = "-5"    -> [n |-> [q |-> -1, h |-> 65535, l |-> 65531], ok |-> TRUE]
      [] s = "4294967296" -> [n |-> [q |-> 1, h |-> 0, l |-> 0], ok |-> TRUE]
      [] s = "4294967297" -> [n |-> [q |-> 1, h |-> 0, l |-> 1], ok |-> TRUE]
      [] s = "99999999999999999999"
                     -> [n |-> [q |-> 2147483647, h |-> 65535, l |-> 65535], ok |-> FALSE]
      [] OTHER       -> [n |-> GoInt(0), ok |-> FALSE]

\* the keys of dns.StringToType the model uses (the map's keys are upper case)
TypeKeywords == {"A", "AAAA", "TXT", "MX", "CNAME", "NS"}

NilIP == [nil |-> TRUE, to4 |-> FALSE, addr |-> ""]

\* net.ParseIP(s), with what To4() of the result answers: an IPv4 literal and an
\* IPv4-mapped IPv6 literal both have a non-nil To4()
ParseIP(s) ==
    CASE s = "1.2.3.4"        -> [nil |-> FALSE, to4 |-> TRUE,  addr |-> "1.2.3.4"]
      [] s = "1.2.3.5"        -> [nil |-> FALSE, to4 |-> TRUE,  addr |-> "1.2.3.5"]
      [] s = "::1"            -> [nil |-> FALSE, to4 |-> FALSE, addr |-> "::1"]
      [] s = "2001:db8::1"    -> [nil |-> FALSE, to4 |-> FALSE, addr |-> "2001:db8::1"]
      [] s = "::ffff:1.2.3.4" -> [nil |-> FALSE, to4 |-> TRUE,  addr |-> "1.2.3.4"]
      [] OTHER                -> NilIP

\* the literals above by their written form
IPv4Literals == {"1.2.3.4", "1.2.3.5"}

IPv6Literals == {"::1", "2001:db8::1", "::ffff:1.2.3.4"}

-----------------------------------------------------------------------------
(* strings kept as sequences of pieces *)

RECURSIVE Join(_, _)
\* strings.Join(p, sep)
Join(p, sep) ==
    IF Len(p) = 0 THEN ""
    ELSE IF Len(p) = 1 THEN p[1]
    ELSE p[1] \o sep \o Join(Tail(p), sep)

RECURSIVE TrimLeft(_)
TrimLeft(p) == IF Len(p) > 0 /\ p[1] = "" THEN TrimLeft(Tail(p)) ELSE p

RECURSIVE TrimRight(_)
TrimRight(p) ==
    IF Len(p) > 0 /\ p[Len(p)] = "" THEN TrimRight(SubSeq(p, 1, Len(p) - 1)) ELSE p

\* strings.TrimSpace on a line kept as its space-separated pieces: the leading
\* and trailing spaces are the leading and trailing empty pieces
TrimSpace(p) == TrimRight(TrimLeft(p))

-----------------------------------------------------------------------------
(* responseparsers.go: recordLine, a trimmed line; p is strings.Split(r, " ") *)

isType(t) == t \in TypeKeywords

Type(p) == IF Len(p) >= 2 /\ isType(p[1]) THEN p[1] ELSE ""

TTL(p) == IF Len(p) >= 3 /\ isType(p[1]) THEN Uint32(Atoi(p[2]).n) ELSE U(0)

Payload(p) ==
    LET p1 == IF Len(p) > 1 /\ isType(p[1])
              THEN LET q == Tail(p)
                   IN  IF Len(q) > 1 /\ Atoi(q[1]).ok THEN Tail(q) ELSE q
              ELSE p
    IN  Join(p1, " ")

RECURSIVE parseLinesOf(_)
parseLinesOf(ls) ==
    IF Len(ls) = 0 THEN <<>>
    ELSE LET line == TrimSpace(ls[1])
         IN  IF Join(line, " ") = "" THEN parseLinesOf(Tail(ls))
             ELSE <<line>> \o parseLinesOf(Tail(ls))

\* parseLines(response): the trimmed non-empty lines, in order
parseLines(response) == parseLinesOf(response.lines)

\* the TTL a decoder gives a line under base TTL ttl
LineTTL(l, ttl) ==
    LET rttl == TTL(l)
    IN  IF U32IsZero(rttl) \/ U32Gt(rttl, ttl) THEN ttl ELSE rttl

RECURSIVE TXTOf(_, _, _)
TXTOf(name, ttl, ls) ==
    IF Len(ls) = 0 THEN <<>>
    ELSE LET l == ls[1]
             t == Type(l)
         IN  IF t = "" \/ t = "TXT"
             THEN <<[name |-> name, rrtype |-> "TXT", ttl |-> LineTTL(l, ttl),
                     txt |-> Payload(l)]>>
                  \o TXTOf(name, ttl, Tail(ls))
             ELSE TXTOf(name, ttl, Tail(ls))

parseTXT(name, ttl, response) == TXTOf(name, ttl, parseLines(response))

RECURSIVE AOfAnyFamily(_, _, _)
\* parseA without the check that an untyped line holds an IPv4 address
AOfAnyFamily(name, ttl, ls) ==
    IF Len(ls) = 0 THEN <<>>
    ELSE LET l == ls[1]
             t == Type(l)
             ip == ParseIP(Payload(l))
         IN  IF (t = "" \/ t = "A") /\ ~ip.nil
             THEN <<[name |-> name, rrtype |-> "A", ttl |-> LineTTL(l, ttl),
                     ip |-> ip]>>
                  \o AOfAnyFamily(name, ttl, Tail(ls))
             ELSE AOfAnyFamily(name, ttl, Tail(ls))

RECURSIVE AOf(_, _, _)
AOf(name, ttl, ls) ==
    IF Len(ls) = 0 THEN <<>>
    ELSE LET l == ls[1]
             t == Type(l)
             ip == ParseIP(Payload(l))
         IN  IF (t = "" \/ t = "A") /\ ~(t = "" /\ ~ip.to4)
             THEN <<[name |-> name, rrtype |-> "A", ttl |-> LineTTL(l, ttl),
                     ip |-> ip]>>
                  \o AOf(name, ttl, Tail(ls))
             ELSE AOf(name, ttl, Tail(ls))

parseA(name, ttl, response) == AOf(name, ttl, parseLines(response))

RECURSIVE AAAAOf(_, _, _)
AAAAOf(name, ttl, ls) ==
    IF Len(ls) = 0 THEN <<>>
    ELSE LET l == ls[1]
             t == Type(l)
             ip == ParseIP(Payload(l))
         IN  IF (t = "" \/ t = "AAAA") /\ ~(t = "" /\ ip.to4)
             THEN <<[name |-> name, rrtype |-> "AAAA", ttl |-> LineTTL(l, ttl),
                     ip |-> ip]>>
                  \o AAAAOf(name, ttl, Tail(ls))
             ELSE AAAAOf(name, ttl, Tail(ls))

parseAAAA(name, ttl, response) == AAAAOf(name, ttl, parseLines(response))

\* responseToRR: the supported query types and their decoders
SupportedTypes == {"TXT", "A", "AAAA"}

responseToRR(rtype, name, ttl, response) ==
    CASE rtype = "TXT"  -> parseTXT(name, ttl, response)
      [] rtype = "A"    -> parseA(name, ttl, response)
      [] rtype = "AAAA" -> parseAAAA(name, ttl, response)

-----------------------------------------------------------------------------
(* httprecord.go: extractTTL *)

\* cacheControlRegex.FindStringSubmatch(cc) for `max-age:[\s]*([\d]+)`:
\* [found, digits], digits being the first submatch of the leftmost match
cacheControlRegex(cc) ==
    CASE cc = "public, max-age: 1800"        -> [found |-> TRUE, digits |-> "1800"]
      [] cc = "max-age:3600"                 -> [found |-> TRUE, digits |-> "3600"]
      [] cc = "max-age: 7200"                -> [found |-> TRUE, digits |-> "7200"]
      [] cc = "max-age:   60"                -> [found |-> TRUE, digits |-> "60"]
      [] cc = "max-age: 0"                   -> [found |-> TRUE, digits |-> "0"]
      [] cc = "max-age: 1"                   -> [found |-> TRUE, digits |-> "1"]
      [] cc = "max-age: x, max-age: 300"     -> [found |-> TRUE, digits |-> "300"]
      [] cc = "max-age: 4294967296"          -> [found |-> TRUE, digits |-> "4294967296"]
      [] cc = "max-age: 4294967297"          -> [found |-> TRUE, digits |-> "4294967297"]
      [] cc = "max-age: 99999999999999999999"
                        -> [found |-> TRUE, digits |-> "99999999999999999999"]
      [] OTHER                               -> [found |-> FALSE, digits |-> ""]

DefaultTTL == 3600

extractTTL(MaxTTL, cc) ==
    LET m   == cacheControlRegex(cc)
        ttl == IF m.found /\ Atoi(m.digits).ok THEN Uint32(Atoi(m.digits).n) ELSE U(0)
    IN  CASE ~U32IsZero(ttl) /\ (U32IsZero(MaxTTL) \/ U32Gt(MaxTTL, ttl)) -> ttl
          [] ~U32IsZero(MaxTTL) -> MaxTTL
          [] OTHER -> U(DefaultTTL)

-----------------------------------------------------------------------------
(* domain names, kept as their sequences of labels *)

\* the fully qualified name as a string, trailing dot included
NameStr(n) == IF Len(n) = 0 THEN "." ELSE Join(n, ".") \o "."

\* dns.IsSubDomain(parent, child): parent is child or an ancestor of it
IsSubDomain(parent, child) ==
    /\ Len(parent) <= Len(child)
    /\ SubSeq(child, Len(child) - Len(parent) + 1, Len(child)) = parent

NoZone == [found |-> FALSE, zone |-> <<>>]

RECURSIVE MatchesFrom(_, _, _)
MatchesFrom(origins, qname, zone) ==
    IF Len(origins) = 0 THEN zone
    ELSE LET zname == origins[1]
             longer == ~zone.found \/ Len(NameStr(zname)) > Len(NameStr(zone.zone))
         IN  IF IsSubDomain(zname, qname) /\ longer
             THEN MatchesFrom(Tail(origins), qname, [found |-> TRUE, zone |-> zname])
             ELSE MatchesFrom(Tail(origins), qname, zone)

\* plugin.Zones(origins).Matches(qname): the longest origin qname is under, the
\* first of them in the list; found = FALSE stands for the empty string
Matches(origins, qname) == MatchesFrom(origins, qname, NoZone)

\* h.Fall.Through(qname)
Through(fall, qname) == Matches(fall, qname).found

-----------------------------------------------------------------------------
(* httprecord.go *)

MaxHTTPBodySize == 4096

RcodeSuccess == 0

RcodeServerFailure == 2

RcodeNameError == 3

\* the placeholder h.fetch substitutes
Placeholder == "%(fqdn)"

NilErr == [kind |-> "nil", http |-> 0, dns |-> 0]

\* an error made by fmt.Errorf or returned by the HTTP client
PlainErr == [kind |-> "error", http |-> 0, dns |-> 0]

BackendIndicatedError(http, dns) == [kind |-> "BackendIndicatedError", http |-> http, dns |-> dns]

\* strings.Replace(uri, old, new, -1) on a URI kept as pieces, old being a piece
Replace(uri, old, new) == [i \in 1..Len(uri) |-> IF uri[i] = old THEN new ELSE uri[i]]

RECURSIVE LineTexts(_)
LineTexts(ls) ==
    IF Len(ls) = 0 THEN <<>> ELSE <<Join(ls[1], " ")>> \o LineTexts(Tail(ls))

\* the bytes of the lines of a body, newlines between them
TextLen(ls) == Len(Join(LineTexts(ls), "\n"))

\* len(body) in bytes
BodyLen(b) == TextLen(b.lines) + b.pad

\* the first n bytes of body b, n being the end of one of its lines or beyond
\* the last of them
Prefix(b, n) ==
    IF n >= TextLen(b.lines) THEN [lines |-> b.lines, pad |-> n - TextLen(b.lines)]
    ELSE LET k == CHOOSE k \in 0..Len(b.lines) : TextLen(SubSeq(b.lines, 1, k)) = n
         IN  [lines |-> SubSeq(b.lines, 1, k), pad |-> 0]

NoFetch == [done |-> FALSE, payload |-> EmptyBody, ttl |-> U(0), err |-> NilErr]

\* the first pieces of the model's URIs that hold a scheme and a host
AbsoluteURLPrefixes ==
    {"http://a.test/", "https://example.com/", "http://10.0.0.1/acme.txt",
     "http://h.example/x"}

\* client.Get can send a request for the URI of pieces p: it has a scheme and
\* url.Parse accepts it, which it does not when a piece holds a % not followed
\* by two hexadecimal digits; otherwise client.Get returns an error and sends
\* nothing
Requestable(p) ==
    /\ Len(p) > 0
    /\ p[1] \in AbsoluteURLPrefixes
    /\ \A i \in DOMAIN p : p[i] \notin {"%{fqdn}", "%(fqdn)"}

\* the client of h.fetch has no CheckRedirect: it follows the Location of a
\* redirect and gives up when ten requests have been redirected
MaxRedirects == 10

\* h.fetch(name, uri) against the upstream, resp: resp.redirects are the
\* Locations of the redirects the upstream answers with, one after the other,
\* before the response the other fields describe. client.Get fails for a URI
\* it cannot request, when resp.neterr (no connection, timeout) and when the
\* redirects do not end; resp.first is the bytes the one Read returns,
\* resp.readErr that Read failing with an error other than io.EOF
fetch(h, name, uri, resp) ==
    LET read == resp.first
        ttl  == extractTTL(h.MaxTTL, resp.cc)
    IN  IF \/ ~Requestable(Replace(uri, Placeholder, NameStr(name)))
           \/ resp.neterr
           \/ Len(resp.redirects) >= MaxRedirects
        THEN [done |-> TRUE, payload |-> EmptyBody, ttl |-> U(0), err |-> PlainErr]
        ELSE CASE resp.readErr ->
                    [done |-> TRUE, payload |-> EmptyBody, ttl |-> U(0), err |-> PlainErr]
               [] ~resp.readErr /\ read = MaxHTTPBodySize ->
                    [done |-> TRUE, payload |-> Prefix(resp.body, read), ttl |-> U(0),
                     err |-> PlainErr]
               [] OTHER ->
                    CASE resp.status = 200 ->
                           [done |-> TRUE, payload |-> Prefix(resp.body, read),
                            ttl |-> ttl, err |-> NilErr]
                      [] resp.status = 404 ->
                           [done |-> TRUE, payload |-> EmptyBody, ttl |-> U(0),
                            err |-> BackendIndicatedError(resp.status, RcodeNameError)]
                      [] resp.status # 404 /\ resp.status >= 500 ->
                           [done |-> TRUE, payload |-> EmptyBody, ttl |-> U(0),
                            err |-> BackendIndicatedError(resp.status, RcodeServerFailure)]
                      [] OTHER ->
                           [done |-> TRUE, payload |-> EmptyBody, ttl |-> U(0),
                            err |-> PlainErr]

\* the URI h.fetch hands to client.Get
RequestURI(name, uri) == Join(Replace(uri, Placeholder, NameStr(name)), "")

\* the HTTP requests client.Get sends for it, in order: none for a URI it
\* cannot request; otherwise the request for the URI, sent resp.resent times
\* more when the transport finds the idle connection it reused closed by the
\* server, and one request for each Location it follows
Requests(name, uri, resp) ==
    IF ~Requestable(Replace(uri, Placeholder, NameStr(name))) THEN <<>>
    ELSE LET n == IF Len(resp.redirects) < MaxRedirects THEN Len(resp.redirects)
                  ELSE MaxRedirects - 1
         IN  [i \in 1..(resp.resent + 1) |-> RequestURI(name, uri)]
             \o SubSeq(resp.redirects, 1, n)

\* the cache key of h.maybeFetchCached: the FNV-64 hash of the bytes of name
\* followed by the bytes of uri, kept as those bytes
cachekey(name, uri) == NameStr(name) \o Join(uri, "")

\* an Add that leaves an existing entry as it is
CacheAddIfAbsent(c, key, item) ==
    [k \in DOMAIN c \cup {key} |-> IF k \in DOMAIN c THEN c[k] ELSE item]

\* h.Cache.Add(key, item). The calls of the model use at most three keys, fewer
\* than a shard of cache.New(100) holds, so that no Add evicts an entry.
CacheAdd(c, key, item) ==
    [k \in DOMAIN c \cup {key} |-> IF k = key THEN item ELSE c[k]]

\* h.maybeFetchCached(name, uri): [out, fetched, cache, get, add]; out is what it
\* returns, fetched what h.fetch returned, get and add whether the cache was
\* read and written
maybeFetchCached(h, c, name, uri, resp) ==
    LET f   == fetch(h, name, uri, resp)
        key == cachekey(name, uri)
    IN  IF ~h.ReturnCachedOnError
        THEN [out |-> f, fetched |-> f, cache |-> c, get |-> FALSE, add |-> FALSE]
        ELSE IF f.err = NilErr
        THEN [out |-> f, fetched |-> f,
              cache |-> CacheAdd(c, key, [Payload |-> f.payload, TTL |-> f.ttl]),
              get |-> FALSE, add |-> TRUE]
        ELSE IF key \in DOMAIN c
        THEN [out |-> [done |-> TRUE, payload |-> c[key].Payload, ttl |-> c[key].TTL,
                       err |-> NilErr],
              fetched |-> f, cache |-> c, get |-> TRUE, add |-> FALSE]
        ELSE [out |-> f, fetched |-> f, cache |-> c, get |-> TRUE, add |-> FALSE]

\* the reply nodata and fetchAndWrite write
Reply(rrs) == [Authoritative |-> TRUE, RecursionAvailable |-> TRUE, Answer |-> rrs]

NoURI == <<>>

NoCall ==
    [called |-> FALSE, qname |-> <<>>, qtype |-> "", resp |-> "", path |-> "",
     uri |-> NoURI, requests |-> <<>>, cacheGet |-> FALSE, cacheAdd |-> FALSE,
     fetched |-> NoFetch, out |-> NoFetch, rcode |-> RcodeSuccess, err |-> NilErr,
     written |-> <<>>]

\* h.Next when no handler follows: what parseConfig and the tests leave there
NilHandler == [nil |-> TRUE, rcode |-> RcodeSuccess, err |-> NilErr, written |-> <<>>]

\* a handler after this one: its ServeDNS returns (rcode, err) and writes written
Handler(rcode, err, written) ==
    [nil |-> FALSE, rcode |-> rcode, err |-> err, written |-> written]

\* plugin.NextOrFailure(name, h.Next, ctx, w, r): the result of h.Next's
\* ServeDNS, or (RcodeServerFailure, "no next plugin found") when h.Next is nil
next(h, qname, qtype, resp) ==
    IF h.Next.nil
    THEN [NoCall EXCEPT !.called = TRUE, !.qname = qname, !.qtype = qtype,
                        !.resp = resp, !.path = "next",
                        !.rcode = RcodeServerFailure, !.err = PlainErr]
    ELSE [NoCall EXCEPT !.called = TRUE, !.qname = qname, !.qtype = qtype,
                        !.resp = resp, !.path = "next",
                        !.rcode = h.Next.rcode, !.err = h.Next.err,
                        !.written = h.Next.written]

\* nodata(w, r)
nodata(qname, qtype, resp) ==
    [NoCall EXCEPT !.called = TRUE, !.qname = qname, !.qtype = qtype, !.resp = resp,
                   !.path = "nodata", !.written = <<Reply(<<>>)>>,
                   !.rcode = RcodeSuccess, !.err = NilErr]

\* h.fetchAndWrite(w, r, rtype, name, uri): [last, cache]
fetchAndWrite(h, c, rtype, name, uri, resp) ==
    LET m    == maybeFetchCached(h, c, name, uri, resp)
        base == [NoCall EXCEPT !.called = TRUE, !.qname = name, !.qtype = rtype,
                               !.resp = resp, !.path = "fetch", !.uri = uri,
                               !.requests = Requests(name, uri, resp),
                               !.cacheGet = m.get, !.cacheAdd = m.add,
                               !.fetched = m.fetched, !.out = m.out]
    IN  IF m.out.err # NilErr
        THEN [last |-> [base EXCEPT
                          !.rcode = IF m.out.err.kind = "BackendIndicatedError"
                                    THEN m.out.err.dns ELSE RcodeServerFailure,
                          !.err = m.out.err],
              cache |-> m.cache]
        ELSE IF rtype \notin SupportedTypes
        THEN [last |-> [base EXCEPT !.rcode = RcodeServerFailure, !.err = PlainErr],
              cache |-> m.cache]
        ELSE [last |-> [base EXCEPT
                          !.rcode = RcodeSuccess, !.err = NilErr,
                          !.written = <<Reply(responseToRR(rtype, name, m.out.ttl,
                                                           m.out.payload))>>],
              cache |-> m.cache]

\* the records of h.Records matching the query, the last of them first
ExactMatchesReversed(h, qname, qtype) ==
    LET m == SelectSeq(h.Records, LAMBDA r : r.Name = qname /\ r.Type = qtype)
    IN  [i \in 1..Len(m) |-> m[Len(m) + 1 - i]]

\* the records of h.Records matching the query, in configuration order
ExactMatches(h, qname, qtype) ==
    SelectSeq(h.Records, LAMBDA r : r.Name = qname /\ r.Type = qtype)

Origins(h) == [i \in 1..Len(h.Zones) |-> h.Zones[i].Origin]

\* ServeDNS without the check of the query type against responseToRR
ServeDNSAnyType(h, c, qname, qtype, resp) ==
    IF Len(ExactMatches(h, qname, qtype)) > 0
    THEN fetchAndWrite(h, c, qtype, qname, ExactMatches(h, qname, qtype)[1].URI, resp)
    ELSE IF Matches(Origins(h), qname).found /\ Len(h.Zones) > 0
    THEN fetchAndWrite(h, c, qtype, qname, h.Zones[1].URI, resp)
    ELSE [last |-> IF Through(h.Fall, qname) THEN next(h, qname, qtype, resp)
                   ELSE nodata(qname, qtype, resp),
          cache |-> c]

\* h.ServeDNS(ctx, w, r) for the query (qname, qtype): [last, cache]
ServeDNSOf(h, c, qname, qtype, resp) ==
    IF qtype \notin SupportedTypes
    THEN [last |-> IF Through(h.Fall, qname) THEN next(h, qname, qtype, resp)
                   ELSE nodata(qname, qtype, resp),
          cache |-> c]
    ELSE IF Len(ExactMatches(h, qname, qtype)) > 0
    THEN fetchAndWrite(h, c, qtype, qname, ExactMatches(h, qname, qtype)[1].URI, resp)
    ELSE IF Matches(Origins(h), qname).found /\ Len(h.Zones) > 0
    THEN fetchAndWrite(h, c, qtype, qname, h.Zones[1].URI, resp)
    ELSE [last |-> IF Through(h.Fall, qname) THEN next(h, qname, qtype, resp)
                   ELSE nodata(qname, qtype, resp),
          cache |-> c]

\* the history after a call that returned as c: a successful fetch is the last
\* success of its pair
GoodAfter(g, c) ==
    IF c.path = "fetch" /\ c.fetched.err = NilErr
    THEN [k \in DOMAIN g \cup {<<c.qname, c.uri>>} |->
            IF k = <<c.qname, c.uri>>
            THEN [Payload |-> c.fetched.payload, TTL |-> c.fetched.ttl]
            ELSE g[k]]
    ELSE g

\* one ServeDNS call with no other call in progress, and what it leaves behind
ServeDNS(qname, qtype, resp) ==
    \E r \in {ServeDNSOf(cfg, cache, qname, qtype, resp)} :
        /\ last' = r.last
        /\ cache' = r.cache
        /\ good' = GoodAfter(good, r.last)
        /\ UNCHANGED <<cfg, decVars, ttlVars, confVars, concVars, lineVars>>

-----------------------------------------------------------------------------
(* setup.go: parseConfig. The names and URIs of a Corefile are kept as the    *)
(* strings written there; a directive is [args, block], args being            *)
(* c.RemainingArgs() and block the lines c.NextBlock() steps through, each    *)
(* [val, args].                                                               *)

\* strings.ToLower over the strings of the model
ToLower(s) ==
    CASE s = "Example.COM."     -> "example.com."
      [] s = "Foo.Example.com." -> "foo.example.com."
      [] s = "HTTP://A.TEST/"   -> "http://a.test/"
      [] s = "HTTP://A.TEST/."  -> "http://a.test/."
      [] OTHER                  -> s

\* strings.ToUpper over the strings of the model
ToUpper(s) ==
    CASE s = "a"     -> "A"
      [] s = "txt"   -> "TXT"
      [] s = "bogus" -> "BOGUS"
      [] OTHER       -> s

\* the strings of the model whose first four bytes are "http"
StartsWithHTTP(s) ==
    s \in {"https://example.com/%{fqdn}.txt", "http://a.test/",
           "http://10.0.0.1/acme.txt", "http.example.com", "https://example.com",
           "http://example.com"}

\* dns.IsFqdn(s): s ends with a dot
IsFqdn(s) ==
    s \in {".", "Example.COM.", "example.com.", "example.org.", "example.net.",
           "Foo.Example.com.", "foo.example.com.", "org.", "http.example.com.",
           "HTTP://A.TEST/.", "http://a.test/.", "relative.example.com.",
           "relative.example.org."}

\* dns.Fqdn(s)
Fqdn(s) == IF IsFqdn(s) THEN s ELSE s \o "."

\* plugin.Name(s).Normalize()
Normalize(s) == ToLower(Fqdn(s))

\* time.ParseDuration(s): [ok, d], d in seconds
ParseDuration(s) ==
    CASE s = "2s" -> [ok |-> TRUE, d |-> 2]
      [] s = "1m" -> [ok |-> TRUE, d |-> 60]
      [] OTHER    -> [ok |-> FALSE, d |-> 0]

\* fall.Root
Root == <<".">>

\* HTTPRecord{}
EmptyHTTPRecord ==
    [Records |-> <<>>, Zones |-> <<>>, Timeout |-> 0, ReturnCachedOnError |-> FALSE,
     Cache |-> FALSE, Fall |-> <<>>]

\* the default case of parseConfigBlock's switch, a record line: [h, err]
parseRecordLine(h, origins, blockuri, val, args) ==
    LET rtype == ToUpper(val)
    IN  IF ~isType(rtype) THEN [h |-> h, err |-> "unknown record type"]
        ELSE IF Len(args) = 2 \/ (Len(args) = 1 /\ blockuri # "")
        THEN LET name == ToLower(args[1])
                 uri  == IF Len(args) = 2 THEN args[2] ELSE blockuri
                 recs == IF IsFqdn(name)
                         THEN <<[Type |-> rtype, Name |-> name, URI |-> uri]>>
                         ELSE [i \in 1..Len(origins) |->
                                 [Type |-> rtype, Name |-> name \o "." \o origins[i],
                                  URI |-> uri]]
             IN  [h |-> [h EXCEPT !.Records = @ \o recs], err |-> ""]
        ELSE [h |-> h, err |-> "wrong argument count"]

\* one pass of the loop of parseConfigBlock: [h, err]
parseBlockLine(h, origins, blockuri, line) ==
    CASE line.val = "onerror" ->
           IF Len(line.args) # 1 \/ (line.args[1] # "servfail" /\ line.args[1] # "cached")
           THEN [h |-> h, err |-> "unknown value for onerror"]
           ELSE [h |-> [h EXCEPT !.ReturnCachedOnError = (line.args[1] = "cached"),
                                 !.Cache = @ \/ (line.args[1] = "cached")],
                 err |-> ""]
      [] line.val = "timeout" ->
           IF Len(line.args) # 1 THEN [h |-> h, err |-> "unknown value for timeout"]
           ELSE IF ~ParseDuration(line.args[1]).ok
           THEN [h |-> h, err |-> "unable to parse timeout"]
           ELSE [h |-> [h EXCEPT !.Timeout = ParseDuration(line.args[1]).d], err |-> ""]
      [] line.val = "fallthrough" ->
           [h |-> [h EXCEPT !.Fall = IF Len(line.args) = 0 THEN Root
                                     ELSE [i \in 1..Len(line.args) |->
                                             Normalize(line.args[i])]],
            err |-> ""]
      [] OTHER -> parseRecordLine(h, origins, blockuri, line.val, line.args)

RECURSIVE parseConfigBlock(_, _, _, _)
\* parseConfigBlock(c, &h, origins, blockuri) over the lines of the block: [h, err]
parseConfigBlock(h, origins, blockuri, block) ==
    IF Len(block) = 0 THEN [h |-> h, err |-> ""]
    ELSE LET r == parseBlockLine(h, origins, blockuri, block[1])
         IN  IF r.err # "" THEN r
             ELSE parseConfigBlock(r.h, origins, blockuri, Tail(block))

\* one pass of the loop of parseConfig, a directive: [panic, h, err]. The slice
\* [:len("http")] of a last argument shorter than four bytes panics.
parseDirective(h, serverBlockOrigins, d) ==
    IF Len(d.args) = 0
    THEN LET r == parseConfigBlock(h, serverBlockOrigins, "", d.block)
         IN  [panic |-> FALSE, h |-> r.h, err |-> r.err]
    ELSE IF Len(ToLower(d.args[Len(d.args)])) < Len("http")
    THEN [panic |-> TRUE, h |-> h, err |-> ""]
    ELSE LET isuri   == StartsWithHTTP(ToLower(d.args[Len(d.args)]))
             uri     == IF isuri THEN d.args[Len(d.args)] ELSE ""
             rest    == IF isuri THEN SubSeq(d.args, 1, Len(d.args) - 1) ELSE d.args
             origins == [i \in 1..Len(rest) |-> Normalize(rest[i])]
             zones   == IF uri # ""
                        THEN [i \in 1..Len(origins) |-> [Origin |-> origins[i], URI |-> uri]]
                        ELSE <<>>
             h1      == [h EXCEPT !.Zones = @ \o zones]
             r       == parseConfigBlock(h1, IF Len(origins) = 0 THEN serverBlockOrigins
                                             ELSE origins, uri, d.block)
         IN  [panic |-> FALSE, h |-> r.h, err |-> r.err]

RECURSIVE parseDirectives(_, _, _)
parseDirectives(h, serverBlockOrigins, dirs) ==
    IF Len(dirs) = 0 THEN [panic |-> FALSE, h |-> h, err |-> ""]
    ELSE LET r == parseDirective(h, serverBlockOrigins, dirs[1])
         IN  IF r.panic \/ r.err # "" THEN r
             ELSE parseDirectives(r.h, serverBlockOrigins, Tail(dirs))

\* parseConfig(c): [panic, h, err]
parseConfig(serverBlockOrigins, dirs) ==
    parseDirectives(EmptyHTTPRecord, serverBlockOrigins, dirs)

-----------------------------------------------------------------------------
(* the inputs of the decoder and extractTTL calls *)

MaxLines == 2

SeqsUpTo(S, n) == UNION {[1..k -> S] : k \in 0..n}

DecLines ==
    { <<"1.2.3.4">>, <<"1.2.3.5">>, <<"::1">>, <<"::ffff:1.2.3.4">>, <<"Hello">>,
      <<"A", "1.2.3.4">>, <<"A", "bogus">>, <<"A", "::1">>,
      <<"AAAA", "::1">>, <<"AAAA", "bogus">>,
      <<"AAAA", "1800", "::1">>, <<"AAAA", "3600", "::1">>,
      <<"A", "0", "1.2.3.4">>, <<"A", "-5", "1.2.3.4">>,
      <<"A", "4294967297", "1.2.3.4">>, <<"A", "99999999999999999999", "1.2.3.4">>,
      <<"TXT", "300", "hi">>, <<"TXT", "7200", "hi">>, <<"TXT", "hello", "world">>,
      <<"A", "300">>, <<"MX", "5", "x">>, <<"a", "1.2.3.4">>,
      <<"", "1.2.3.4", "">>, <<>> }

DecBodies == {[lines |-> ls, pad |-> 0] : ls \in SeqsUpTo(DecLines, MaxLines)}

BaseTTLs == {U(3600), U(1800), U(60)}

Headers ==
    { "", "no-cache", "max-age=1800", "max-age: -5", "public, max-age: 1800",
      "max-age:3600", "max-age: 7200", "max-age:   60", "max-age: 0", "max-age: 1",
      "max-age: x, max-age: 300", "max-age: 4294967296", "max-age: 4294967297",
      "max-age: 99999999999999999999" }

MaxTTLs == {U(0), U(1), U(300), U(1800), U(3600), U(86400)}

QName == <<"foo", "example", "com">>

\* no extractTTL run yet
NoTTL == [run |-> FALSE, ttl |-> [h |-> 0, l |-> 0]]

DecIdle == dBody = EmptyBody /\ dBase = U(0) /\ dOut = NoRun

TTLIdle == tCC = "" /\ tMax = U(0) /\ tOut = NoTTL

SrvIdle ==
    /\ cfg = [Next |-> NilHandler, Records |-> <<>>, Zones |-> <<>>, MaxTTL |-> U(0),
              ReturnCachedOnError |-> FALSE, Fall |-> <<>>]
    /\ cache = <<>>
    /\ good = <<>>
    /\ last = NoCall

\* no parseConfig run yet
NoParse == [run |-> FALSE, panic |-> FALSE, h |-> EmptyHTTPRecord, err |-> ""]

ConfIdle == cIn = [serverBlockOrigins |-> <<>>, dirs |-> <<>>] /\ cOut = NoParse

ConcIdle == procs = <<>> /\ hist = <<>>

\* no recordLine method called yet
NoLine == [run |-> FALSE, Type |-> "", TTL |-> U(0), Payload |-> ""]

LineIdle == lLine = <<>> /\ lOut = NoLine

-----------------------------------------------------------------------------
(* the inputs of the ServeDNS calls *)

MaxZones == 2

NFoo == <<"foo", "example", "com">>

NApex == <<"example", "com">>

NBar == <<"bar", "example", "org">>

NNet == <<"x", "net">>

\* an endpoint with the placeholder h.fetch substitutes
U1 == <<"http://a.test/", "%(fqdn)">>

\* the endpoint of README.md's example
U2 == <<"https://example.com/", "%{fqdn}", ".txt">>

\* an endpoint with no placeholder
U3 == <<"http://10.0.0.1/acme.txt">>

ZoneSet ==
    { [Origin |-> <<"example", "com">>, URI |-> U1],
      [Origin |-> <<"example", "com">>, URI |-> U2],
      [Origin |-> <<"foo", "example", "com">>, URI |-> U2],
      [Origin |-> <<"example", "org">>, URI |-> U3] }

RecordTables ==
    { <<>>,
      <<[Name |-> NApex, Type |-> "TXT", URI |-> U3]>>,
      <<[Name |-> NBar, Type |-> "TXT", URI |-> U2],
        [Name |-> NBar, Type |-> "TXT", URI |-> U3]>> }

\* no fallthrough, fallthrough for every name (fall.Root), fallthrough for two zones
Falls == { <<>>, << <<>> >>, << <<"net">>, <<"example", "com">> >> }

LinesA == << <<"1.2.3.4">>, <<"::1">> >>

LinesT == << <<"AAAA", "3600", "::1">> >>

BodyA == [lines |-> LinesA, pad |-> 0]

BodyT == [lines |-> LinesT, pad |-> 0]

\* the lines ls followed by newlines up to total bytes
Padded(ls, total) == [lines |-> ls, pad |-> total - TextLen(ls)]

\* a Read that fills the buffer as far as the body goes
Full(b) == IF BodyLen(b) < MaxHTTPBodySize THEN BodyLen(b) ELSE MaxHTTPBodySize

Resp(status, cc, body, first) ==
    [neterr |-> FALSE, readErr |-> FALSE, status |-> status, cc |-> cc,
     body |-> body, first |-> first, redirects |-> <<>>, resent |-> 0]

\* the upstream answers n times 302 with Location: http://a.test/other before
\* it answers r
Redirected(r, n) == [r EXCEPT !.redirects = [i \in 1..n |-> "http://a.test/other"]]

\* the server had closed the idle connection the transport reused for the
\* request: the transport sends it again on another connection, and r answers
Resent(r) == [r EXCEPT !.resent = 1]

\* client.Get fails: connection refused, timeout
NetErr ==
    [neterr |-> TRUE, readErr |-> FALSE, status |-> 0, cc |-> "",
     body |-> EmptyBody, first |-> 0, redirects |-> <<>>, resent |-> 0]

\* the connection breaks while the body is read
ReadErr ==
    [neterr |-> FALSE, readErr |-> TRUE, status |-> 200, cc |-> "",
     body |-> BodyA, first |-> 0, redirects |-> <<>>, resent |-> 0]

\* the upstream responses of the single calls: every status class, bodies
\* below, at and above the ceiling, the body delivered at once or in parts
ServeResponses ==
    {NetErr, ReadErr}
    \cup {Resp(st, "", BodyA, Full(BodyA)) : st \in {200, 404, 503, 302}}
    \cup {Resp(200, "public, max-age: 1800", BodyT, Full(BodyT))}
    \cup {Resp(200, "", BodyA, TextLen(SubSeq(LinesA, 1, 1)))}
    \cup {Resp(st, "", Padded(LinesA, MaxHTTPBodySize), MaxHTTPBodySize) : st \in {200, 404}}
    \cup {Resp(200, "", Padded(LinesA, MaxHTTPBodySize - 1), MaxHTTPBodySize - 1)}
    \cup {Resp(st, "", Padded(LinesA, 5000), f) : st \in {200, 404}, f \in {1000, MaxHTTPBodySize}}
    \cup {Redirected(Resp(200, "", BodyA, Full(BodyA)), n) :
             n \in {1, MaxRedirects - 1, MaxRedirects}}
    \cup {Redirected(Resp(404, "", BodyA, Full(BodyA)), 1)}
    \cup {Resent(Resp(200, "", BodyA, Full(BodyA)))}

\* the upstream responses of the call sequences
SeqResponses ==
    {NetErr}
    \cup {Resp(st, "", BodyA, Full(BodyA)) : st \in {200, 404, 503, 302}}
    \cup {Resp(200, "public, max-age: 1800", BodyT, Full(BodyT))}
    \cup {Resp(200, "", BodyA, TextLen(SubSeq(LinesA, 1, 1)))}
    \cup {Resp(200, "", Padded(LinesA, MaxHTTPBodySize), MaxHTTPBodySize)}
    \cup {Redirected(Resp(200, "", BodyA, Full(BodyA)), 1)}
    \cup {Resent(Resp(200, "", BodyA, Full(BodyA)))}

ServeNames == {NFoo, NApex, NBar, NNet}

QTypes == {"A", "AAAA", "TXT", "MX"}

\* what can follow the plugin: nothing, a handler that answers, a handler that
\* refuses
NextHandlers ==
    { NilHandler,
      Handler(RcodeSuccess, NilErr,
              <<[Authoritative |-> FALSE, RecursionAvailable |-> TRUE, Answer |-> <<>>]>>),
      Handler(RcodeNameError, PlainErr, <<>>) }

\* h.Next matters only to a configuration with a fallthrough
ServeConfigs ==
    {c \in [Next : NextHandlers, Records : RecordTables,
            Zones : SeqsUpTo(ZoneSet, MaxZones), MaxTTL : {U(0)},
            ReturnCachedOnError : BOOLEAN, Fall : Falls] :
        c.Fall = <<>> => c.Next = NilHandler}

SeqConfigs ==
    [Next : {NilHandler},
     Records : {<<[Name |-> NApex, Type |-> "TXT", URI |-> U3]>>},
     Zones : {<<[Origin |-> <<"example", "com">>, URI |-> U1]>>},
     MaxTTL : {U(0)}, ReturnCachedOnError : BOOLEAN, Fall : {<<>>}]

-----------------------------------------------------------------------------
(* ServeDNS calls on one instance. The server runs every query in a goroutine *)
(* of its own, so calls overlap. A call that fetches takes two steps: up to   *)
(* the return of h.fetch, the exchange with the upstream, and from there,     *)
(* with its access to h.Cache, to its return; h.Cache's Add and Get are       *)
(* atomic (the cache locks its shard), nothing else orders the calls. A call  *)
(* that does not fetch touches no shared state and is one step.               *)

MaxCalls == 2

\* a ServeDNS call: the query and the response the upstream has for it
Call(qname, qtype, resp) == [qname |-> qname, qtype |-> qtype, resp |-> resp]

\* the calls of the call sequences: every response for the name under the zone,
\* a success and a failure for the name with a Record, and queries that resolve
\* no lookup
SeqCalls ==
    {Call(NFoo, "TXT", r) : r \in SeqResponses}
    \cup {Call(NApex, "TXT", r) : r \in {Resp(200, "", BodyA, Full(BodyA)),
                                         Resp(404, "", BodyA, Full(BodyA))}}
    \cup {Call(NFoo, "MX", NetErr), Call(NNet, "TXT", NetErr)}

\* a goroutine of SpecConc that has not called h.fetch yet
IdleProc ==
    [pc |-> "idle", qname |-> <<>>, qtype |-> "", resp |-> NetErr, fetched |-> NoFetch,
     stamp |-> 0, began |-> 0, call |-> NoCall, answer |-> 0]

\* history: clock counts the upstream's responses; lastItem is the {payload,
\* ttl} of the last successful one and items the {payload, ttl} of all of them;
\* cacheStamp is the response whose Add wrote the cache entry; completed is the
\* latest successful response whose call has returned
NoHist ==
    [clock |-> 0, lastItem |-> <<>>, items |-> {}, cacheStamp |-> 0, completed |-> 0]

\* In the three steps below c is the call and r what ServeDNS makes of it with
\* the cache as it is now, ServeDNSOf(cfg, cache, c.qname, c.qtype, c.resp).

\* a call that resolves no lookup: next handler or empty reply
ServeDNSLocal(c, r) ==
    /\ r.last.path # "fetch"
    /\ last' = r.last
    /\ UNCHANGED <<cfg, cache, good, procs, hist, decVars, ttlVars, confVars, lineVars>>

\* a goroutine runs a call that resolves a lookup up to the return of h.fetch;
\* procs is the bag of the calls that are there, at most MaxCalls at a time
ServeDNSFetch(c, r) ==
    /\ BagCardinality(procs) < MaxCalls
    /\ r.last.path = "fetch"
    /\ procs' = procs (+) SetToBag({c})
    /\ UNCHANGED <<cfg, cache, good, last, hist, decVars, ttlVars, confVars, lineVars>>

\* the goroutine of call c runs the rest of it: h.Cache.Add or h.Cache.Get, then
\* the decoder and the reply
ServeDNSReturn(c, r) ==
    /\ BagIn(c, procs)
    /\ last' = r.last
    /\ cache' = r.cache
    /\ good' = GoodAfter(good, r.last)
    /\ procs' = procs (-) SetToBag({c})
    /\ UNCHANGED <<cfg, hist, decVars, ttlVars, confVars, lineVars>>

Init ==
    /\ cfg \in SeqConfigs
    /\ cache = <<>>
    /\ good = <<>>
    /\ last = NoCall
    /\ procs = EmptyBag
    /\ hist = NoHist
    /\ DecIdle
    /\ TTLIdle
    /\ ConfIdle
    /\ LineIdle

Next ==
    \E c \in SeqCalls :
        \E r \in {ServeDNSOf(cfg, cache, c.qname, c.qtype, c.resp)} :
            \/ ServeDNSLocal(c, r)
            \/ ServeDNSFetch(c, r)
            \/ ServeDNSReturn(c, r)

Spec == Init /\ [][Next]_vars

-----------------------------------------------------------------------------
(* one ServeDNS call on a fresh instance, for every configuration *)

InitServe ==
    /\ cfg \in ServeConfigs
    /\ cache = <<>>
    /\ good = <<>>
    /\ last = NoCall
    /\ DecIdle
    /\ TTLIdle
    /\ ConfIdle
    /\ ConcIdle
    /\ LineIdle

NextServe ==
    /\ ~last.called
    /\ \E qname \in ServeNames, qtype \in QTypes, resp \in ServeResponses :
            ServeDNS(qname, qtype, resp)

SpecServe == InitServe /\ [][NextServe]_vars

-----------------------------------------------------------------------------
(* the decoders applied to every body and base TTL *)

InitDecode ==
    /\ dBody \in DecBodies
    /\ dBase \in BaseTTLs
    /\ dOut = NoRun
    /\ TTLIdle
    /\ SrvIdle
    /\ ConfIdle
    /\ ConcIdle
    /\ LineIdle

Decode(rtype) ==
    /\ dOut' = [run |-> TRUE, rtype |-> rtype,
                rrs |-> responseToRR(rtype, QName, dBase, dBody)]
    /\ UNCHANGED <<dBody, dBase, ttlVars, srvVars, confVars, concVars, lineVars>>

NextDecode == \E rtype \in SupportedTypes : Decode(rtype)

SpecDecode == InitDecode /\ [][NextDecode]_vars

-----------------------------------------------------------------------------
(* extractTTL applied to every header value and MaxTTL *)

InitTTL ==
    /\ tCC \in Headers
    /\ tMax \in MaxTTLs
    /\ tOut = NoTTL
    /\ DecIdle
    /\ SrvIdle
    /\ ConfIdle
    /\ ConcIdle
    /\ LineIdle

ExtractTTL ==
    /\ tOut' = [run |-> TRUE, ttl |-> extractTTL(tMax, tCC)]
    /\ UNCHANGED <<tCC, tMax, decVars, srvVars, confVars, concVars, lineVars>>

NextTTL == ExtractTTL

SpecTTL == InitTTL /\ [][NextTTL]_vars

-----------------------------------------------------------------------------
(* parseConfig applied to the directives of a Corefile *)

MaxArgs == 2

MaxBlockLines == 2

\* the arguments of a directive: URIs in lower and upper case, origins with and
\* without the trailing dot, an origin of three bytes, an origin whose first
\* label is http
ConfArgs ==
    { "https://example.com/%{fqdn}.txt", "HTTP://A.TEST/", "example.org",
      "Example.COM.", "org", "http.example.com" }

Line(val, args) == [val |-> val, args |-> args]

ConfLines ==
    { Line("TXT", <<"foo">>),
      Line("a", <<"Foo.Example.com.", "http://10.0.0.1/acme.txt">>),
      Line("TXT", <<"bar", "http://10.0.0.1/acme.txt">>),
      Line("AAAA", <<"foo.example.com.">>),
      Line("bogus", <<"foo", "http://10.0.0.1/acme.txt">>),
      Line("TXT", <<>>),
      Line("onerror", <<"cached">>), Line("onerror", <<"never">>),
      Line("timeout", <<"2s">>), Line("timeout", <<"soon">>),
      Line("fallthrough", <<>>), Line("fallthrough", <<"example.org">>) }

Directives ==
    [args : SeqsUpTo(ConfArgs, MaxArgs), block : SeqsUpTo(ConfLines, MaxBlockLines)]

\* directives of a Corefile that names the plugin twice
RepeatedDirectives ==
    { [args |-> <<"example.org", "HTTP://A.TEST/">>, block |-> <<Line("TXT", <<"foo">>)>>],
      [args |-> <<"org">>, block |-> <<>>],
      [args |-> <<>>, block |-> <<Line("TXT", <<"foo">>)>>] }

ConfInputs ==
    [serverBlockOrigins : {<<"example.net.">>},
     dirs : {<<d>> : d \in Directives}
            \cup {<<d1, d2>> : d1 \in RepeatedDirectives, d2 \in RepeatedDirectives}]

InitConfig ==
    /\ cIn \in ConfInputs
    /\ cOut = NoParse
    /\ DecIdle
    /\ TTLIdle
    /\ SrvIdle
    /\ ConcIdle
    /\ LineIdle

ParseConfig ==
    /\ \E r \in {parseConfig(cIn.serverBlockOrigins, cIn.dirs)} :
          cOut' = [run |-> TRUE, panic |-> r.panic, h |-> r.h, err |-> r.err]
    /\ UNCHANGED <<cIn, decVars, ttlVars, srvVars, concVars, lineVars>>

NextConfig == ParseConfig

SpecConfig == InitConfig /\ [][NextConfig]_vars

-----------------------------------------------------------------------------
(* the methods of recordLine applied to every trimmed line *)

MaxTokens == 3

\* the pieces strings.Split(line, " ") yields: type keywords in both cases,
\* integers, addresses, text, and the empty piece between two adjacent spaces
LinePieces ==
    { "A", "AAAA", "TXT", "a", "txt", "300", "0", "-5", "4294967297",
      "99999999999999999999", "1.2.3.4", "hello", "" }

\* the lines parseLines yields: trimmed and not empty
TrimmedLines ==
    {p \in SeqsUpTo(LinePieces, MaxTokens) : Len(p) > 0 /\ p[1] # "" /\ p[Len(p)] # ""}

InitLine ==
    /\ lLine \in TrimmedLines
    /\ lOut = NoLine
    /\ DecIdle
    /\ TTLIdle
    /\ SrvIdle
    /\ ConfIdle
    /\ ConcIdle

RecordLine ==
    /\ lOut' = [run |-> TRUE, Type |-> Type(lLine), TTL |-> TTL(lLine),
                Payload |-> Payload(lLine)]
    /\ UNCHANGED <<lLine, decVars, ttlVars, srvVars, confVars, concVars>>

NextLine == RecordLine

SpecLine == InitLine /\ [][NextLine]_vars

-----------------------------------------------------------------------------
(* overlapping ServeDNS calls, all for the same query, one call a goroutine,   *)
(* with the order of the upstream's responses and of the Adds kept as history *)

MaxProcs == 3

Procs == 1..MaxProcs

ConcName == NFoo

ConcType == "A"

ConcConfig ==
    [Next |-> NilHandler, Records |-> <<>>, Zones |-> <<[Origin |-> <<"example", "com">>, URI |-> U1]>>,
     MaxTTL |-> U(0), ReturnCachedOnError |-> TRUE, Fall |-> <<>>]

\* what the upstream answers: two different successes and a failure
ConcResponses ==
    { Resp(200, "", BodyA, Full(BodyA)),
      Resp(200, "public, max-age: 1800", BodyT, Full(BodyT)),
      Resp(404, "", BodyA, Full(BodyA)) }

InitConc ==
    /\ cfg = ConcConfig
    /\ cache = <<>>
    /\ good = <<>>
    /\ last = NoCall
    /\ procs = [p \in Procs |-> IdleProc]
    /\ hist = NoHist
    /\ DecIdle
    /\ TTLIdle
    /\ ConfIdle
    /\ LineIdle

\* goroutine p runs ServeDNS up to the return of h.fetch
ConcFetch(p, resp) ==
    /\ procs[p].pc = "idle"
    /\ \E f \in {fetch(cfg, ConcName, cfg.Zones[1].URI, resp)} :
          /\ procs' = [procs EXCEPT ![p] =
                         [IdleProc EXCEPT !.pc = "fetched", !.qname = ConcName,
                                          !.qtype = ConcType, !.resp = resp,
                                          !.fetched = f,
                                          !.stamp = hist.clock + 1,
                                          !.began = hist.completed]]
          /\ hist' = [hist EXCEPT
                        !.clock = @ + 1,
                        !.lastItem = IF f.err = NilErr
                                     THEN <<[Payload |-> f.payload, TTL |-> f.ttl]>>
                                     ELSE @,
                        !.items = IF f.err = NilErr
                                  THEN @ \cup {[Payload |-> f.payload, TTL |-> f.ttl]}
                                  ELSE @]
    /\ UNCHANGED <<cfg, cache, good, last, decVars, ttlVars, confVars, lineVars>>

\* goroutine p runs the rest of its call: h.Cache.Add or h.Cache.Get, then the
\* decoder and the reply
ConcCache(p) ==
    /\ procs[p].pc = "fetched"
    /\ \E r \in {ServeDNSOf(cfg, cache, procs[p].qname, procs[p].qtype, procs[p].resp)} :
          /\ cache' = r.cache
          /\ good' = GoodAfter(good, r.last)
          /\ procs' = [procs EXCEPT ![p].pc = "done", ![p].call = r.last,
                                    ![p].answer = IF r.last.cacheGet /\ r.last.err = NilErr
                                                  THEN hist.cacheStamp ELSE 0]
          /\ hist' = [hist EXCEPT
                        !.cacheStamp = IF r.last.cacheAdd THEN procs[p].stamp ELSE @,
                        !.completed = IF r.last.cacheAdd /\ procs[p].stamp > @
                                      THEN procs[p].stamp ELSE @]
    /\ UNCHANGED <<cfg, last, decVars, ttlVars, confVars, lineVars>>

NextConc ==
    \/ \E p \in Procs, resp \in ConcResponses : ConcFetch(p, resp)
    \/ \E p \in Procs : ConcCache(p)

SpecConc == InitConc /\ [][NextConc]_vars

-----------------------------------------------------------------------------
(* ServeDNS calls, overlapping or not, for Records whose names and URIs run   *)
(* into each other: the                                                       *)
(* bytes of "a." followed by "http://h.example/x" are the bytes of            *)
(* "a.http://h." followed by "example/x"                                      *)

NShort == <<"a">>

NLong == <<"a", "http://h">>

UShort == <<"example/x">>

ULong == <<"http://h.example/x">>

IsoConfigs ==
    [Next : {NilHandler},
     Records : {<<[Name |-> NShort, Type |-> "TXT", URI |-> ULong],
                  [Name |-> NLong, Type |-> "TXT", URI |-> UShort],
                  [Name |-> NApex, Type |-> "TXT", URI |-> U3]>>},
     Zones : {<<>>}, MaxTTL : {U(0)}, ReturnCachedOnError : BOOLEAN, Fall : {<<>>}]

IsoNames == {NShort, NLong, NApex}

IsoCalls ==
    {Call(n, "TXT", r) :
        n \in IsoNames,
        r \in { NetErr, Resp(200, "", BodyA, Full(BodyA)),
                Resp(200, "public, max-age: 1800", BodyT, Full(BodyT)),
                Resp(404, "", BodyA, Full(BodyA)) }}

InitIso ==
    /\ cfg \in IsoConfigs
    /\ cache = <<>>
    /\ good = <<>>
    /\ last = NoCall
    /\ procs = EmptyBag
    /\ hist = NoHist
    /\ DecIdle
    /\ TTLIdle
    /\ ConfIdle
    /\ LineIdle

NextIso ==
    \E c \in IsoCalls :
        \E r \in {ServeDNSOf(cfg, cache, c.qname, c.qtype, c.resp)} :
            \/ ServeDNSFetch(c, r)
            \/ ServeDNSReturn(c, r)

SpecIso == InitIso /\ [][NextIso]_vars

-----------------------------------------------------------------------------
(* properties of the decoders (SpecDecode) *)

\* the addresses of the records of the last decoder run, in order
EmittedIPs == [i \in DOMAIN dOut.rrs |-> dOut.rrs[i].ip]

\* C3: every A or AAAA record a decoder emits carries a parsed, non-nil
\* address: a line whose payload is no IP address yields no record, with or
\* without an explicit type.
C3_NoRecordWithoutAddress ==
    (dOut.run /\ dOut.rtype \in {"A", "AAAA"}) =>
        \A i \in DOMAIN dOut.rrs : ~dOut.rrs[i].ip.nil

\* a trimmed line with no explicit type: its first piece is no type keyword,
\* in either case
NoExplicitType(l) == l[1] \notin TypeKeywords \cup {"a", "aaaa", "txt"}

TypelessBody(b) ==
    \A i \in DOMAIN parseLines(b) : NoExplicitType(parseLines(b)[i])

\* the payloads of the lines of a typeless body that are literals of S, in line
\* order, as addresses
LiteralsOf(b, S) ==
    LET texts == [i \in DOMAIN parseLines(b) |-> Join(parseLines(b)[i], " ")]
        sel   == SelectSeq(texts, LAMBDA x : x \in S)
    IN  [i \in DOMAIN sel |-> ParseIP(sel[i])]

\* the IPv6 literals that hold an IPv4 address (IPv4-mapped)
MappedLiterals == {"::ffff:1.2.3.4"}

\* C4 as stated: in a body with no explicit types or TTLs, the A decoder answers
\* with exactly the IPv4-literal lines and the AAAA decoder includes exactly
\* the IPv6-literal lines, one record per line, in line order.
C4_FamiliesSplitByLiteral ==
    (dOut.run /\ TypelessBody(dBody)) =>
        /\ dOut.rtype = "A" => EmittedIPs = LiteralsOf(dBody, IPv4Literals)
        /\ dOut.rtype = "AAAA" =>
              SelectSeq(EmittedIPs, LAMBDA ip : ~ip.nil) = LiteralsOf(dBody, IPv6Literals)

\* C4 amended: an IPv4-mapped IPv6 literal counts as IPv4. The A decoder
\* answers with exactly the lines holding an IPv4 literal or an IPv4-mapped IPv6
\* literal, the AAAA decoder includes exactly the lines holding any other IPv6
\* literal, one record per line, in line order.
C4_FamiliesSplitByTo4 ==
    (dOut.run /\ TypelessBody(dBody)) =>
        /\ dOut.rtype = "A" =>
              EmittedIPs = LiteralsOf(dBody, IPv4Literals \cup MappedLiterals)
        /\ dOut.rtype = "AAAA" =>
              SelectSeq(EmittedIPs, LAMBDA ip : ~ip.nil)
                 = LiteralsOf(dBody, IPv6Literals \ MappedLiterals)

\* C4 witness: the AAAA decoder has run on a typeless body holding an
\* IPv4-mapped literal and another IPv6 literal
C4_Witness ==
    /\ dOut.run /\ dOut.rtype = "AAAA" /\ TypelessBody(dBody)
    /\ Len(LiteralsOf(dBody, MappedLiterals)) = 1
    /\ Len(LiteralsOf(dBody, IPv6Literals \ MappedLiterals)) = 1
    /\ Len(dOut.rrs) = 1

\* the TTL written on a line, per the format [TYPE [TTL]] DATA: the second
\* piece after a type keyword, when it is a non-negative integer and data follows
ExplicitTTL(l) ==
    IF Len(l) >= 3 /\ l[1] \in TypeKeywords /\ Atoi(l[2]).ok /\ Atoi(l[2]).n.q >= 0
    THEN [present |-> TRUE, t |-> Atoi(l[2]).n]
    ELSE [present |-> FALSE, t |-> GoInt(0)]

\* the TTL C5 gives a record of line l under base TTL base
ClaimedTTL(l, base) ==
    LET e == ExplicitTTL(l)
    IN  IF e.present /\ ~IntIsZero(e.t) /\ ~IntGtU32(e.t, base)
        THEN Uint32(e.t) ELSE base

\* C5: under base TTL b, every emitted record has the explicit TTL t of its
\* line when 0 < t <= b and b when the explicit TTL is 0, absent or above b; so
\* no record's TTL exceeds b.
C5_TTLOnlyLowered ==
    dOut.run =>
        LET inc == SelectSeq(parseLines(dBody),
                     LAMBDA l : Len(responseToRR(dOut.rtype, QName, dBase,
                                                 [lines |-> <<l>>, pad |-> 0])) = 1)
        IN  /\ Len(dOut.rrs) = Len(inc)
            /\ \A i \in DOMAIN dOut.rrs :
                  /\ dOut.rrs[i].ttl = ClaimedTTL(inc[i], dBase)
                  /\ U32Leq(dOut.rrs[i].ttl, dBase)

-----------------------------------------------------------------------------
(* properties of extractTTL (SpecTTL) *)

\* the candidate TTL of C9: the integer after max-age: when that is a valid
\* non-negative integer, 0 otherwise
Candidate(cc) ==
    LET m == cacheControlRegex(cc)
    IN  IF m.found /\ Atoi(m.digits).ok /\ Atoi(m.digits).n.q >= 0
        THEN Atoi(m.digits).n ELSE GoInt(0)

\* C9: extractTTL returns the candidate when candidate > 0 and (MaxTTL = 0 or
\* candidate < MaxTTL), otherwise MaxTTL when MaxTTL > 0, otherwise 3600.
C9_ExtractTTLResult ==
    tOut.run =>
        LET c == Candidate(tCC)
            below == c.q = 0 /\ U32Gt(tMax, Uint32(c))
        IN  [q |-> 0, h |-> tOut.ttl.h, l |-> tOut.ttl.l] =
               (IF ~IntIsZero(c) /\ (U32IsZero(tMax) \/ below) THEN c
                ELSE IF ~U32IsZero(tMax) THEN GoInt(tMax.h * 65536 + tMax.l)
                ELSE GoInt(3600))

-----------------------------------------------------------------------------
(* properties of ServeDNS *)

\* the last call resolved a lookup and its fetch failed
FetchFailed == last.called /\ last.path = "fetch" /\ last.fetched.err # NilErr

\* C1: with ReturnCachedOnError, a failing fetch for a (name, endpoint) pair
\* that succeeded before is answered with the {payload, ttl} of its last
\* success; without the option, or with no earlier success, the failure is
\* returned as it is.
C1_FallbackToLastSuccess ==
    FetchFailed =>
        LET k == <<last.qname, last.uri>>
        IN  IF cfg.ReturnCachedOnError /\ k \in DOMAIN good
            THEN /\ last.out = [done |-> TRUE, payload |-> good[k].Payload,
                                ttl |-> good[k].TTL, err |-> NilErr]
                 /\ last.err = NilErr
                 /\ last.rcode = RcodeSuccess
                 /\ last.written = <<Reply(responseToRR(last.qtype, last.qname,
                                                        good[k].TTL, good[k].Payload))>>
            ELSE /\ last.out = last.fetched
                 /\ last.err = last.fetched.err
                 /\ last.rcode # RcodeSuccess
                 /\ last.written = <<>>

\* C1 witness: a 404 after an earlier success of the same pair is answered from
\* the cache
C1_Witness ==
    /\ FetchFailed
    /\ cfg.ReturnCachedOnError
    /\ last.fetched.err.http = 404
    /\ <<last.qname, last.uri>> \in DOMAIN good
    /\ last.err = NilErr
    /\ Len(last.written) = 1

NoExactRecord(qname, qtype) ==
    \A i \in DOMAIN cfg.Records :
        ~(cfg.Records[i].Name = qname /\ cfg.Records[i].Type = qtype)

\* the origins of the configured zones the name is under
MatchingOrigins(qname) ==
    {cfg.Zones[i].Origin : i \in {j \in DOMAIN cfg.Zones : IsSubDomain(cfg.Zones[j].Origin, qname)}}

\* C2: a query of a supported type with no exact Record and a matching zone is
\* fetched from the endpoint of a zone whose origin is the longest origin the
\* query name is under.
C2_URIOfMatchedZone ==
    (/\ last.called /\ last.qtype \in SupportedTypes
     /\ NoExactRecord(last.qname, last.qtype)
     /\ MatchingOrigins(last.qname) # {}) =>
        LET longest == CHOOSE o \in MatchingOrigins(last.qname) :
                          \A o2 \in MatchingOrigins(last.qname) : Len(o2) <= Len(o)
        IN  /\ last.path = "fetch"
            /\ \E i \in DOMAIN cfg.Zones :
                  cfg.Zones[i].Origin = longest /\ cfg.Zones[i].URI = last.uri

\* a request went out, the upstream answered and the read of the body did not
\* fail
Answered ==
    /\ last.requests # <<>>
    /\ ~last.resp.neterr
    /\ Len(last.resp.redirects) < MaxRedirects
    /\ ~last.resp.readErr

\* C6: a response whose body has MaxHTTPBodySize bytes or more makes fetch fail,
\* whatever the status and however the body is delivered.
C6_CeilingAlwaysFails ==
    (/\ last.called /\ last.path = "fetch" /\ Answered
     /\ BodyLen(last.resp.body) >= MaxHTTPBodySize) =>
        last.fetched.err # NilErr

\* the status of the upstream's first response: that of a redirect when the
\* upstream redirects
UpstreamStatus == IF last.resp.redirects # <<>> THEN 302 ELSE last.resp.status

\* C7: with no cache hit and a body below the ceiling the upstream's status
\* decides: 200 a reply built from the body, 404 name-error carrying 404, 500
\* and above server-failure carrying the status, any other status and any
\* network failure server-failure.
C7_StatusDecides ==
    (/\ last.called /\ last.path = "fetch"
     /\ ~(last.cacheGet /\ last.err = NilErr)
     /\ Answered => BodyLen(last.resp.body) < MaxHTTPBodySize) =>
        CASE ~Answered ->
               last.rcode = RcodeServerFailure /\ last.err # NilErr /\ last.written = <<>>
          [] Answered /\ UpstreamStatus = 200 ->
               /\ last.rcode = RcodeSuccess /\ last.err = NilErr
               /\ last.written =
                     <<Reply(responseToRR(last.qtype, last.qname,
                                          extractTTL(cfg.MaxTTL, last.resp.cc),
                                          last.resp.body))>>
          [] Answered /\ UpstreamStatus = 404 ->
               /\ last.rcode = RcodeNameError
               /\ last.err = BackendIndicatedError(404, RcodeNameError)
          [] Answered /\ UpstreamStatus >= 500 ->
               /\ last.rcode = RcodeServerFailure
               /\ last.err = BackendIndicatedError(UpstreamStatus, RcodeServerFailure)
          [] OTHER ->
               last.rcode = RcodeServerFailure /\ last.err = PlainErr

\* the query of the last call is one ServeDNS cannot answer: its type is not
\* supported, or no Record and no Zone matches it
Unanswerable ==
    \/ last.qtype \notin SupportedTypes
    \/ /\ NoExactRecord(last.qname, last.qtype)
       /\ MatchingOrigins(last.qname) = {}

\* the name is in the fallthrough set
InFallthrough(qname) == \E i \in DOMAIN cfg.Fall : IsSubDomain(cfg.Fall[i], qname)

\* C8: a query that cannot be answered causes no HTTP request and no cache
\* access; it goes to the next handler if its name is in the fallthrough set,
\* the call returning what that handler returns (a server failure when there
\* is none), and is otherwise answered with an authoritative empty reply, success and no
\* error, whatever the upstream does.
C8_UnanswerableIsLocal ==
    (last.called /\ Unanswerable) =>
        /\ last.requests = <<>>
        /\ ~last.cacheGet /\ ~last.cacheAdd
        /\ cache = <<>>
        /\ IF InFallthrough(last.qname)
           THEN /\ last.path = "next"
                /\ IF cfg.Next.nil
                   THEN /\ last.rcode = RcodeServerFailure /\ last.err # NilErr
                        /\ last.written = <<>>
                   ELSE /\ last.rcode = cfg.Next.rcode /\ last.err = cfg.Next.err
                        /\ last.written = cfg.Next.written
           ELSE /\ last.path = "nodata"
                /\ last.written = <<[Authoritative |-> TRUE, RecursionAvailable |-> TRUE,
                                     Answer |-> <<>>]>>
                /\ last.rcode = RcodeSuccess
                /\ last.err = NilErr

\* C8 witness: a query of an unsupported type for a name under a configured
\* zone, answered empty while the upstream is down
C8_Witness ==
    /\ last.called /\ Unanswerable /\ last.resp.neterr
    /\ last.qtype = "MX" /\ MatchingOrigins(last.qname) # {}
    /\ cfg.ReturnCachedOnError
    /\ ~InFallthrough(last.qname)
    /\ last.path = "nodata"

\* the placeholder README.md documents
DocPlaceholder == "%{fqdn}"

\* C10: for an endpoint holding the documented placeholder, the URI requested
\* is the endpoint with every placeholder replaced by the query name, trailing
\* dot included.
C10_DocumentedPlaceholderFilled ==
    (/\ last.called /\ last.path = "fetch"
     /\ \E i \in DOMAIN last.uri : last.uri[i] = DocPlaceholder) =>
        last.requests = <<Join(Replace(last.uri, DocPlaceholder, NameStr(last.qname)), "")>>

\* the first Record of the configuration with the name and type of the query
FirstExactRecord(qname, qtype) ==
    LET hit(i) == cfg.Records[i].Name = qname /\ cfg.Records[i].Type = qtype
    IN  cfg.Records[CHOOSE i \in DOMAIN cfg.Records :
                       hit(i) /\ \A j \in 1..(i - 1) : ~hit(j)]

\* C11: a query of a supported type with at least one Record of its name and
\* type is resolved with the URI of the first such Record in configuration
\* order, and the result of that resolution, success or failure, is what the
\* call returns; no Zone and no fallthrough zone changes that.
C11_FirstExactRecordWins ==
    (/\ last.called /\ last.qtype \in SupportedTypes
     /\ ~NoExactRecord(last.qname, last.qtype)) =>
        LET rec == FirstExactRecord(last.qname, last.qtype)
        IN  /\ last.path = "fetch"
            /\ last.uri = rec.URI
            /\ last.requests = Requests(last.qname, rec.URI, last.resp)
            /\ [last |-> last, cache |-> cache]
                  = fetchAndWrite(cfg, <<>>, last.qtype, last.qname, rec.URI, last.resp)

\* C11 witness: two Records for the name, a Zone the name is under and a
\* fallthrough for every name with a handler that would answer; the fetch from
\* the first Record's endpoint fails and the failure is returned
C11_Witness ==
    /\ last.called /\ last.qtype = "TXT" /\ last.qname = NBar
    /\ Len(ExactMatches(cfg, last.qname, last.qtype)) = 2
    /\ MatchingOrigins(last.qname) # {}
    /\ InFallthrough(last.qname) /\ ~cfg.Next.nil /\ cfg.Next.rcode = RcodeSuccess
    /\ last.uri = U2
    /\ last.path = "fetch"
    /\ last.rcode = RcodeServerFailure
    /\ last.err # NilErr
    /\ last.written = <<>>

-----------------------------------------------------------------------------
(* properties of parseConfig (SpecConfig) *)

\* the arguments of the model that are URIs; every other argument is an origin
URIArgs == {"https://example.com/%{fqdn}.txt", "HTTP://A.TEST/"}

\* the block URI of directive d per the syntax: its last argument when a URI
BlockURIOf(d) ==
    IF Len(d.args) > 0 /\ d.args[Len(d.args)] \in URIArgs THEN d.args[Len(d.args)] ELSE ""

\* the origins of directive d per the syntax, normalised, in argument order
OriginsOf(d) ==
    LET rest == IF BlockURIOf(d) # "" THEN SubSeq(d.args, 1, Len(d.args) - 1) ELSE d.args
    IN  [i \in 1..Len(rest) |-> Normalize(rest[i])]

IsRecordLine(l) == l.val \notin {"onerror", "timeout", "fallthrough"}

\* a record line the syntax rejects: unknown type, or no URI anywhere
RejectedLine(l, d) ==
    /\ IsRecordLine(l)
    /\ \/ ToUpper(l.val) \notin TypeKeywords
       \/ Len(l.args) = 1 /\ BlockURIOf(d) = ""

\* a record line TYPE NAME [URI] the syntax accepts
AcceptedLine(l, d) ==
    /\ IsRecordLine(l)
    /\ ToUpper(l.val) \in TypeKeywords
    /\ Len(l.args) = 2 \/ (Len(l.args) = 1 /\ BlockURIOf(d) # "")

\* the Records of an accepted line: one for an absolute name, one per origin
\* for a relative name
RecordsOfLine(l, d, serverBlockOrigins) ==
    LET name == ToLower(l.args[1])
        uri  == IF Len(l.args) = 2 THEN l.args[2] ELSE BlockURIOf(d)
        os   == IF Len(OriginsOf(d)) = 0 THEN serverBlockOrigins ELSE OriginsOf(d)
    IN  IF IsFqdn(name) THEN <<[Type |-> ToUpper(l.val), Name |-> name, URI |-> uri]>>
        ELSE [i \in 1..Len(os) |->
                [Type |-> ToUpper(l.val), Name |-> name \o "." \o os[i], URI |-> uri]]

RECURSIVE RecordsOfBlock(_, _, _)
RecordsOfBlock(block, d, serverBlockOrigins) ==
    IF Len(block) = 0 THEN <<>>
    ELSE RecordsOfLine(block[1], d, serverBlockOrigins)
         \o RecordsOfBlock(Tail(block), d, serverBlockOrigins)

\* C12: parseConfig returns a configuration or an error for every argument
\* list; the last argument is the block URI when it is a URI and one more origin
\* otherwise; there is one Zone per origin exactly when a block URI is given; a
\* relative NAME yields one Record per origin in argument order and an absolute
\* NAME one Record; a record line with no URI anywhere, or of an unknown type,
\* yields an error.
C12_ParseConfigBySyntax ==
    (cOut.run /\ Len(cIn.dirs) = 1) =>
        LET d == cIn.dirs[1]
        IN  /\ ~cOut.panic
            /\ cOut.h.Zones =
                  (IF BlockURIOf(d) # ""
                   THEN [i \in 1..Len(OriginsOf(d)) |->
                           [Origin |-> OriginsOf(d)[i], URI |-> BlockURIOf(d)]]
                   ELSE <<>>)
            /\ (\E i \in DOMAIN d.block : RejectedLine(d.block[i], d)) => cOut.err # ""
            /\ (\A i \in DOMAIN d.block : AcceptedLine(d.block[i], d)) =>
                  /\ cOut.err = ""
                  /\ cOut.h.Records = RecordsOfBlock(d.block, d, cIn.serverBlockOrigins)

-----------------------------------------------------------------------------
(* properties of recordLine (SpecLine) *)

\* the tokens of a line: what lies between its runs of spaces
Tokens(p) == SelectSeq(p, LAMBDA t : t # "")

\* a non-negative integer
IsTTLToken(t) == Atoi(t).ok /\ Atoi(t).n.q >= 0

\* the reference parse of a trimmed line: [type, hasTTL, ttl, payload]
ReferenceParse(p) ==
    LET toks  == Tokens(p)
        typed == Len(toks) >= 2 /\ ToUpper(toks[1]) \in TypeKeywords
        timed == typed /\ IsTTLToken(toks[2])
    IN  [type    |-> IF typed THEN ToUpper(toks[1]) ELSE "",
         hasTTL  |-> timed,
         ttl     |-> IF timed THEN Atoi(toks[2]).n ELSE GoInt(0),
         payload |-> IF timed THEN Join(SubSeq(toks, 3, Len(toks)), " ")
                     ELSE IF typed THEN Join(Tail(toks), " ")
                     ELSE Join(toks, " ")]

\* C13: Type, TTL and Payload of a trimmed line are those of the reference
\* parse: tokens between runs of whitespace, a leading type keyword in either
\* case when a token follows it, then a non-negative integer as the TTL, the
\* remaining tokens joined by single spaces as the payload.
C13_LineParserIsReference ==
    lOut.run =>
        LET ref == ReferenceParse(lLine)
        IN  /\ ToUpper(lOut.Type) = ref.type
            /\ [q |-> 0, h |-> lOut.TTL.h, l |-> lOut.TTL.l] = ref.ttl
            /\ lOut.Payload = ref.payload

-----------------------------------------------------------------------------
(* properties of concurrent calls (SpecConc) *)

ConcKey == cachekey(ConcName, cfg.Zones[1].URI)

\* no call is between a successful fetch and its Add
NoAddPending == \A p \in Procs : ~(procs[p].pc = "fetched" /\ procs[p].fetched.err = NilErr)

\* C14: under every interleaving the cache entry of the pair holds the
\* {payload, ttl} of the last successful fetch, the one whose response the
\* upstream produced last; a fallback answer is never older than a success
\* whose call returned before the failing fetch began; payload and TTL of an
\* entry come from one fetch.
C14_EntryIsLastSuccess ==
    /\ (NoAddPending /\ ConcKey \in DOMAIN cache) =>
          <<cache[ConcKey]>> = hist.lastItem
    /\ \A p \in Procs :
          (procs[p].pc = "done" /\ procs[p].call.cacheGet /\ procs[p].call.err = NilErr) =>
              procs[p].answer >= procs[p].began
    /\ ConcKey \in DOMAIN cache => cache[ConcKey] \in hist.items

-----------------------------------------------------------------------------
(* properties of ServeDNS calls on one instance (Spec) *)

\* the last call wrote one authoritative reply and returned (RcodeSuccess, nil)
EndsInReply ==
    /\ Len(last.written) = 1
    /\ last.written[1].Authoritative
    /\ last.rcode = RcodeSuccess
    /\ last.err = NilErr

\* the last call wrote nothing and returned a failure code with an error
EndsInError ==
    /\ last.written = <<>>
    /\ last.rcode # RcodeSuccess
    /\ last.err # NilErr

\* the fetch of the last call failed and the cache had no entry to answer with
UnmaskedFailure ==
    /\ FetchFailed
    /\ ~(cfg.ReturnCachedOnError /\ cachekey(last.qname, last.uri) \in DOMAIN cache)

\* C15: a call that is not handed to the next handler either writes exactly one
\* authoritative reply and returns (RcodeSuccess, nil), or writes nothing and
\* returns a failure code with an error; a fetch failure that no cache entry
\* masks ends the second way; a call issues at most one HTTP request.
C15_ReplyOrError ==
    (last.called /\ last.path # "next") =>
        /\ EndsInReply \/ EndsInError
        /\ ~(EndsInReply /\ EndsInError)
        /\ UnmaskedFailure => EndsInError
        /\ Len(last.requests) <= 1

-----------------------------------------------------------------------------
(* properties of the cache key (SpecIso) *)

\* C16: a failing fetch for a pair (name, uri) is answered from the cache only
\* with the payload an earlier successful fetch for the same pair returned,
\* never with the payload stored for another pair.
C16_FallbackIsolatedPerPair ==
    (FetchFailed /\ last.cacheGet /\ last.err = NilErr) =>
        /\ <<last.qname, last.uri>> \in DOMAIN good
        /\ last.out.payload = good[<<last.qname, last.uri>>].Payload
        /\ last.out.ttl = good[<<last.qname, last.uri>>].TTL

=============================================================================
